---- MODULE Spec2Model ----
(***************************************************************************)
(* Model of leaf/views/rbac/user.py: the user view functions of the RBAC   *)
(* blueprint.  Each view function is an operator from the persisted users  *)
(* and the request to a response and the users after it; the decorators    *)
(* of a view (wrapper.require) are part of its operator.                   *)
(***************************************************************************)
EXTENDS Integers, Sequences, FiniteSets, TLC

VARIABLES
    users,      \* the User collection: id -> document (exists = FALSE: no document)
    nextId,     \* the next fresh ObjectId
    inflight,   \* requests that loaded a user and have not yet saved it
    last        \* the last request served and its response

vars == <<users, nextId, inflight, last>>

-----------------------------------------------------------------------------
(* Bounds *)

MaxValue == 2       \* index values are 1..MaxValue
MaxTime == 2        \* upload dates are 1..MaxTime

\* the ObjectId text of each user id
OidText == <<"5e0000000000000000000001", "5e0000000000000000000002">>
UserIds == DOMAIN OidText
Values == 1..MaxValue
Times == 1..MaxTime
GroupIds == {"g1"}

-----------------------------------------------------------------------------
(* Requests *)

None == "None"
Self == "self"                       \* the reserved path value meaning the caller
Malformed == "not-an-objectid"
Paths == {OidText[u] : u \in UserIds} \cup {Self, Malformed}

P_get == "leaf.views.rbac.user.get"
P_update == "leaf.views.rbac.user.update"
P_create == "leaf.views.rbac.user.create"
P_delete == "leaf.views.rbac.user.delete"

PermSets == {{}, {P_update}, {P_delete, P_create}}
Callers == [identity : UserIds, permissions : PermSets]
Anonymous == [identity |-> 0, permissions |-> {}]

\* _rbac_settings.User.Indexs: name -> (typeid, description)
settings_User_Indexs ==
    [n \in {"Id", "Mail", "Phone"} |->
        CASE n = "Id" -> <<"T_ID", "index by user id">>
          [] n = "Mail" -> <<"T_MAIL", "index by mail">>
          [] n = "Phone" -> <<"T_PHONE", "index by phone">>]

Unregistered == "T_BOGUS"

ExtensionInputs == {"{}", "{\"k\":1}"}

\* uploaded files: what PIL reads from them
NoFile == [length |-> 0, format |-> "", size |-> 0]
Files == {[length |-> 10, format |-> "PNG", size |-> 1],
          [length |-> 20, format |-> "JPEG", size |-> 2]}

\* Python values of different types never compare equal
PyNone == [type |-> "NoneType", v |-> 0]
PyStr(t) == [type |-> "str", v |-> t]
PyDateTime(t) == [type |-> "datetime", v |-> t]
\* the header text of a timestamp, as Last-Modified carries it
HttpDate(t) == PyStr(t)
HeaderInputs == {PyNone} \cup {HttpDate(t) : t \in 1..(MaxTime + 1)}

-----------------------------------------------------------------------------
(* Documents *)

NoAvatar == [size |-> 0, length |-> 0, format |-> "", upload_date |-> 0, thumb_date |-> 0]

NoUser == [exists |-> FALSE, informations |-> "", disabled |-> FALSE,
           groups |-> {}, indexs |-> <<>>, avatar |-> NoAvatar]

\* User(): a new document with the fields' defaults
NewUser == [exists |-> TRUE, informations |-> "", disabled |-> FALSE,
            groups |-> {}, indexs |-> <<>>, avatar |-> NoAvatar]

UserIndex(typeid, value, description, extension) ==
    [typeid |-> typeid, value |-> value, description |-> description,
     extension |-> extension]

-----------------------------------------------------------------------------
(* Collaborators of the views: validator, wrapper, functions *)

Invalid == 0    \* no identity: the validator raised InvalidIdentifier

Resp(status, ret, db) == [status |-> status, ret |-> ret, users |-> db]

\* validator.objectid: the identity a well-formed token denotes
validator_objectid(pathValue) ==
    IF \E u \in UserIds : OidText[u] = pathValue
    THEN CHOOSE u \in UserIds : OidText[u] = pathValue
    ELSE Invalid

\* validator.operator: the caller's identity for the self sentinel
validator_operator(c, pathValue) ==
    IF pathValue = Self THEN c.identity ELSE validator_objectid(pathValue)

\* a gate whose override does not compare the caller with the target
authorize_any_target(c, requiredPermission, selfServiceAllowed, resolvedTarget) ==
    \/ requiredPermission \in c.permissions
    \/ selfServiceAllowed

\* PermissionGate
authorize(c, requiredPermission, selfServiceAllowed, resolvedTarget) ==
    \/ requiredPermission \in c.permissions
    \/ selfServiceAllowed /\ c.identity = resolvedTarget

\* wrapper.require(pointname, checkuser): the view runs only when the gate allows
require(pointname, checkuser, c, pathValue, db, view) ==
    IF authorize(c, pointname, checkuser, validator_operator(c, pathValue))
    THEN view
    ELSE Resp("PermissionDenied", None, db)

\* functions.Retrieve.byid / Document.save / Document.delete
Found(db, userid) == userid # Invalid /\ db[userid].exists
save(db, userid, user) == [db EXCEPT ![userid] = user]
delete(db, userid) == [db EXCEPT ![userid] = NoUser]

\* dict(_rbac_settings.User.Indexs.values()): typeid -> description
indexs_dict ==
    [t \in {settings_User_Indexs[n][1] : n \in DOMAIN settings_User_Indexs} |->
        LET n == CHOOSE k \in DOMAIN settings_User_Indexs :
                     settings_User_Indexs[k][1] = t
        IN settings_User_Indexs[n][2]]

\* tools.web.JSONparser: the structure the JSON text denotes
JSONparser(text) ==
    IF text = "{}" THEN [keys |-> {}] ELSE [keys |-> {"k"}]

\* Create.index that appends and keeps the entry of the same typeid
Create_index_append(user, index) ==
    [user EXCEPT !.indexs = Append(user.indexs, index)]

\* functions.Create.index: replace the entry of the same typeid, append
Create_index(user, index) ==
    [user EXCEPT !.indexs =
        Append(SelectSeq(user.indexs, LAMBDA i : i.typeid # index.typeid), index)]

\* Delete.index with the test inverted: keeps the entries of the typeid
Delete_index_inverted(user, typeid) ==
    [user EXCEPT !.indexs = SelectSeq(user.indexs, LAMBDA i : i.typeid = typeid)]

\* functions.Delete.index: remove the entries of the typeid
Delete_index(user, typeid) ==
    [user EXCEPT !.indexs = SelectSeq(user.indexs, LAMBDA i : i.typeid # typeid)]

\* functions.Update.inituser: the document id index of a new user
inituser(user, userid) ==
    [user EXCEPT !.indexs =
        <<UserIndex("T_ID", userid, indexs_dict["T_ID"], JSONparser("{}"))>>]

\* request.form.get(name, default=True, type=bool): bool() of the raw text
FormBool(raw) == IF raw = None THEN TRUE ELSE raw # ""

-----------------------------------------------------------------------------
(* The views *)

get_user_byid(db, c, userid) ==
    require(P_get, FALSE, c, userid, db,
        LET uid == validator_objectid(userid) IN
        IF uid = Invalid THEN Resp("InvalidIdentifier", None, db)
        ELSE IF ~Found(db, uid) THEN Resp("UserNotFound", None, db)
        ELSE Resp("OK", db[uid], db))

\* update_user_informations that saves under the caller's identity
update_user_informations_operator(db, c, userid, informations) ==
    require(P_update, TRUE, c, userid, db,
        LET uid == validator_operator(c, userid) IN
        IF uid = Invalid THEN Resp("InvalidIdentifier", None, db)
        ELSE IF ~Found(db, uid) THEN Resp("UserNotFound", None, db)
        ELSE LET user == [db[uid] EXCEPT !.informations = informations]
             IN Resp("OK", user, save(db, c.identity, user)))

update_user_informations(db, c, userid, informations) ==
    require(P_update, TRUE, c, userid, db,
        LET uid == validator_operator(c, userid) IN
        IF uid = Invalid THEN Resp("InvalidIdentifier", None, db)
        ELSE IF ~Found(db, uid) THEN Resp("UserNotFound", None, db)
        ELSE LET user == [db[uid] EXCEPT !.informations = informations]
             IN Resp("OK", user, save(db, uid, user)))

create_user(db, c, newid) ==
    require(P_create, FALSE, c, None, db,
        LET user == inituser(NewUser, newid)
        IN Resp("OK", user, save(db, newid, user)))

\* update_user_status with the self-service override switched on
update_user_status_checkuser(db, c, userid, rawstatus) ==
    require(P_update, TRUE, c, userid, db,
        LET uid == validator_objectid(userid)
            status == FormBool(rawstatus)
        IN
        IF uid = Invalid THEN Resp("InvalidIdentifier", None, db)
        ELSE IF ~Found(db, uid) THEN Resp("UserNotFound", None, db)
        ELSE LET user == [db[uid] EXCEPT !.disabled = ~status]
             IN Resp("OK", user, save(db, uid, user)))

update_user_status(db, c, userid, rawstatus) ==
    require(P_update, FALSE, c, userid, db,
        LET uid == validator_objectid(userid)
            status == FormBool(rawstatus)
        IN
        IF uid = Invalid THEN Resp("InvalidIdentifier", None, db)
        ELSE IF ~Found(db, uid) THEN Resp("UserNotFound", None, db)
        ELSE LET user == [db[uid] EXCEPT !.disabled = ~status]
             IN Resp("OK", user, save(db, uid, user)))

add_user_to_group(db, c, userid, groupid) ==
    require(P_update, TRUE, c, userid, db,
        LET uid == validator_operator(c, userid) IN
        IF uid = Invalid THEN Resp("InvalidIdentifier", None, db)
        ELSE IF ~Found(db, uid) THEN Resp("UserNotFound", None, db)
        ELSE LET user == [db[uid] EXCEPT !.groups = @ \cup {groupid}]
             IN Resp("OK", user, save(db, uid, user)))

\* update_user_index that appends to the user's list itself
update_user_index_append(db, c, userid, typeid, value, extension) ==
    require(P_update, TRUE, c, userid, db,
        LET uid == validator_operator(c, userid)
            ext == JSONparser(extension)
        IN
        IF uid = Invalid THEN Resp("InvalidIdentifier", None, db)
        ELSE IF typeid \notin DOMAIN indexs_dict
             THEN Resp("UndefinedUserIndex", typeid, db)
        ELSE LET description == indexs_dict[typeid]
                 index == UserIndex(typeid, value, description, ext)
             IN IF ~Found(db, uid) THEN Resp("UserNotFound", None, db)
                ELSE LET user == [db[uid] EXCEPT !.indexs = Append(@, index)]
                     IN Resp("OK", user.indexs, save(db, uid, user)))

\* update_user_index without the check of the typeid
update_user_index_unchecked(db, c, userid, typeid, value, extension) ==
    require(P_update, TRUE, c, userid, db,
        LET uid == validator_operator(c, userid)
            ext == JSONparser(extension)
            description == IF typeid \in DOMAIN indexs_dict
                           THEN indexs_dict[typeid] ELSE None
            index == UserIndex(typeid, value, description, ext)
        IN
        IF uid = Invalid THEN Resp("InvalidIdentifier", None, db)
        ELSE IF ~Found(db, uid) THEN Resp("UserNotFound", None, db)
        ELSE LET user == Create_index(db[uid], index)
             IN Resp("OK", user.indexs, save(db, uid, user)))

\* update_user_index that looks the typeid up among the names of the settings
update_user_index_byname(db, c, userid, typeid, value, extension) ==
    require(P_update, TRUE, c, userid, db,
        LET uid == validator_operator(c, userid)
            ext == JSONparser(extension)
        IN
        IF uid = Invalid THEN Resp("InvalidIdentifier", None, db)
        ELSE IF typeid \notin DOMAIN settings_User_Indexs
             THEN Resp("UndefinedUserIndex", typeid, db)
        ELSE LET description == settings_User_Indexs[typeid][2]
                 index == UserIndex(typeid, value, description, ext)
             IN IF ~Found(db, uid) THEN Resp("UserNotFound", None, db)
                ELSE LET user == Create_index(db[uid], index)
                     IN Resp("OK", user.indexs, save(db, uid, user)))

update_user_index(db, c, userid, typeid, value, extension) ==
    require(P_update, TRUE, c, userid, db,
        LET uid == validator_operator(c, userid)
            ext == JSONparser(extension)
        IN
        IF uid = Invalid THEN Resp("InvalidIdentifier", None, db)
        ELSE IF typeid \notin DOMAIN indexs_dict
             THEN Resp("UndefinedUserIndex", typeid, db)
        ELSE LET description == indexs_dict[typeid]
                 index == UserIndex(typeid, value, description, ext)
             IN IF ~Found(db, uid) THEN Resp("UserNotFound", None, db)
                ELSE LET user == Create_index(db[uid], index)
                     IN Resp("OK", user.indexs, save(db, uid, user)))

delete_user_index(db, c, userid, typeid) ==
    require(P_update, TRUE, c, userid, db,
        LET uid == validator_operator(c, userid) IN
        IF uid = Invalid THEN Resp("InvalidIdentifier", None, db)
        ELSE IF ~Found(db, uid) THEN Resp("UserNotFound", None, db)
        ELSE LET user == Delete_index(db[uid], typeid)
             IN Resp("OK", user.indexs, save(db, uid, user)))

\* delete_user that looks the user up before the gate is asked
delete_user_lookup_first(db, c, userid) ==
    LET uid == validator_operator(c, userid) IN
    IF uid # Invalid /\ ~Found(db, uid) THEN Resp("UserNotFound", None, db)
    ELSE require(P_delete, TRUE, c, userid, db,
             IF uid = Invalid THEN Resp("InvalidIdentifier", None, db)
             ELSE Resp("OK", TRUE, delete(db, uid)))

\* delete_user without the self-service override
delete_user_nocheckuser(db, c, userid) ==
    require(P_delete, FALSE, c, userid, db,
        LET uid == validator_operator(c, userid) IN
        IF uid = Invalid THEN Resp("InvalidIdentifier", None, db)
        ELSE IF ~Found(db, uid) THEN Resp("UserNotFound", None, db)
        ELSE Resp("OK", TRUE, delete(db, uid)))

\* delete_user with the permission checked after the user is deleted
delete_user_gate_last(db, c, userid) ==
    LET uid == validator_operator(c, userid)
        after == IF Found(db, uid) THEN delete(db, uid) ELSE db
    IN require(P_delete, TRUE, c, userid, after,
           IF uid = Invalid THEN Resp("InvalidIdentifier", None, db)
           ELSE IF ~Found(db, uid) THEN Resp("UserNotFound", None, db)
           ELSE Resp("OK", TRUE, after))

delete_user(db, c, userid) ==
    require(P_delete, TRUE, c, userid, db,
        LET uid == validator_operator(c, userid) IN
        IF uid = Invalid THEN Resp("InvalidIdentifier", None, db)
        ELSE IF ~Found(db, uid) THEN Resp("UserNotFound", None, db)
        ELSE Resp("OK", TRUE, delete(db, uid)))

remove_user_from_group(db, c, userid, groupid) ==
    require(P_update, TRUE, c, userid, db,
        LET uid == validator_operator(c, userid) IN
        IF uid = Invalid THEN Resp("InvalidIdentifier", None, db)
        ELSE IF ~Found(db, uid) THEN Resp("UserNotFound", None, db)
        ELSE LET user == [db[uid] EXCEPT !.groups = @ \ {groupid}]
             IN Resp("OK", TRUE, save(db, uid, user)))

get_all_indexs == settings_User_Indexs

\* user.avatar.gridout: the stored file of the avatar field, if any
gridout(avatar) == avatar.size # 0

\* user.avatar.replace(file): delete both variants, put the file and its thumbnail
replace(file, thumb_date, upload_date) ==
    [size |-> file.size, length |-> file.length, format |-> file.format,
     upload_date |-> upload_date, thumb_date |-> thumb_date]

\* "image/" + format.lower()
mimetype(format) ==
    CASE format = "PNG" -> "image/png"
      [] format = "JPEG" -> "image/jpeg"
      [] OTHER -> "image/"

\* update_user_avatar that also stores a first avatar
update_user_avatar_first_upload(db, c, userid, avatar, thumb_date, upload_date) ==
    require(P_update, TRUE, c, userid, db,
        LET uid == validator_objectid(userid) IN
        IF uid = Invalid THEN Resp("InvalidIdentifier", None, db)
        ELSE IF ~Found(db, uid) THEN Resp("UserNotFound", None, db)
        ELSE IF avatar # NoFile
             THEN LET user == [db[uid] EXCEPT
                                  !.avatar = replace(avatar, thumb_date, upload_date)]
                  IN Resp("OK", user.avatar.length, save(db, uid, user))
             ELSE Resp("OK", 0, db))

\* update_user_avatar that does not test the uploaded file
update_user_avatar_nofile(db, c, userid, avatar, thumb_date, upload_date) ==
    require(P_update, TRUE, c, userid, db,
        LET uid == validator_objectid(userid) IN
        IF uid = Invalid THEN Resp("InvalidIdentifier", None, db)
        ELSE IF ~Found(db, uid) THEN Resp("UserNotFound", None, db)
        ELSE IF gridout(db[uid].avatar)
             THEN LET user == [db[uid] EXCEPT
                                  !.avatar = replace(avatar, thumb_date, upload_date)]
                  IN Resp("OK", user.avatar.length, save(db, uid, user))
             ELSE Resp("OK", 0, db))

update_user_avatar(db, c, userid, avatar, thumb_date, upload_date) ==
    require(P_update, TRUE, c, userid, db,
        LET uid == validator_objectid(userid) IN
        IF uid = Invalid THEN Resp("InvalidIdentifier", None, db)
        ELSE IF ~Found(db, uid) THEN Resp("UserNotFound", None, db)
        ELSE IF gridout(db[uid].avatar) /\ avatar # NoFile
             THEN LET user == [db[uid] EXCEPT
                                  !.avatar = replace(avatar, thumb_date, upload_date)]
                  IN Resp("OK", user.avatar.length, save(db, uid, user))
             ELSE Resp("OK", 0, db))

\* delete_user_avatar that does not save the user
delete_user_avatar_unsaved(db, c, userid) ==
    require(P_update, TRUE, c, userid, db,
        LET uid == validator_objectid(userid) IN
        IF uid = Invalid THEN Resp("InvalidIdentifier", None, db)
        ELSE IF ~Found(db, uid) THEN Resp("UserNotFound", None, db)
        ELSE IF db[uid].avatar.size # 0
             THEN Resp("OK", TRUE, db)
             ELSE Resp("OK", FALSE, db))

delete_user_avatar(db, c, userid) ==
    require(P_update, TRUE, c, userid, db,
        LET uid == validator_objectid(userid) IN
        IF uid = Invalid THEN Resp("InvalidIdentifier", None, db)
        ELSE IF ~Found(db, uid) THEN Resp("UserNotFound", None, db)
        ELSE IF db[uid].avatar.size # 0
             THEN LET user == [db[uid] EXCEPT !.avatar = NoAvatar]
                  IN Resp("OK", TRUE, save(db, uid, user))
             ELSE Resp("OK", FALSE, db))

\* get_user_avatar that checks for the avatar only when the original is asked for
get_user_avatar_thumbnail_unchecked(db, userid, thumbnail, if_modified_since) ==
    LET uid == validator_objectid(userid)
        is_thumbnail == thumbnail # 0
    IN
    IF uid = Invalid THEN Resp("InvalidIdentifier", None, db)
    ELSE IF ~Found(db, uid) THEN Resp("UserNotFound", None, db)
    ELSE IF ~is_thumbnail /\ db[uid].avatar.size = 0 THEN Resp("404", None, db)
    ELSE LET handler_upload_date ==
                 IF is_thumbnail THEN db[uid].avatar.thumb_date
                 ELSE db[uid].avatar.upload_date
             last_requested == if_modified_since
             last_modified == PyDateTime(handler_upload_date)
         IN IF last_requested = last_modified THEN Resp("304", None, db)
            ELSE Resp("200", [last_modified |-> last_modified,
                              mimetype |-> mimetype(db[uid].avatar.format)], db)

get_user_avatar(db, userid, thumbnail, if_modified_since) ==
    LET uid == validator_objectid(userid)
        is_thumbnail == thumbnail # 0
    IN
    IF uid = Invalid THEN Resp("InvalidIdentifier", None, db)
    ELSE IF ~Found(db, uid) THEN Resp("UserNotFound", None, db)
    ELSE IF db[uid].avatar.size = 0 THEN Resp("404", None, db)
    ELSE LET handler_upload_date ==
                 IF is_thumbnail THEN db[uid].avatar.thumb_date
                 ELSE db[uid].avatar.upload_date
             last_requested == if_modified_since
             last_modified == PyDateTime(handler_upload_date)
         IN IF last_requested = last_modified THEN Resp("304", None, db)
            ELSE Resp("200", [last_modified |-> last_modified,
                              mimetype |-> mimetype(db[uid].avatar.format)], db)

-----------------------------------------------------------------------------
(* The state machine *)

Workers == {"w1", "w2"}
Idle == [busy |-> FALSE]

InitAvatar == replace(CHOOSE f \in Files : f.format = "PNG", 1, 1)

\* a user as the creation flow leaves it, with or without a stored avatar
InitDoc(u, hasAvatar) ==
    [inituser(NewUser, u) EXCEPT !.avatar = IF hasAvatar THEN InitAvatar ELSE NoAvatar]

NoRequest ==
    [op |-> "none", caller |-> Anonymous, path |-> None, args |-> <<>>,
     status |-> "none", ret |-> None, pre |-> <<>>]

Init ==
    /\ \E n \in UserIds :
          /\ users = [u \in UserIds |-> IF u <= n THEN InitDoc(u, u = 1) ELSE NoUser]
          /\ nextId = n + 1
    /\ inflight = [w \in Workers |-> Idle]
    /\ last = NoRequest

\* the identity a path value denotes for the caller, Invalid if none
Target(c, path) == validator_operator(c, path)

PreIndexs(c, path) ==
    IF Target(c, path) = Invalid THEN <<>> ELSE users[Target(c, path)].indexs

\* one request served as one synchronous unit of work: the view runs to its
\* response, which waits in last until Reply sends it
Serve(op, c, path, args, r) ==
    /\ last = NoRequest
    /\ c = Anonymous \/ c.identity < nextId
    /\ users' = r.users
    /\ last' = [op |-> op, caller |-> c, path |-> path, args |-> args,
                status |-> r.status, ret |-> r.ret, pre |-> PreIndexs(c, path)]
    /\ UNCHANGED inflight

GetUserById(c, p) ==
    /\ Serve("get_user_byid", c, p, <<>>, get_user_byid(users, c, p))
    /\ UNCHANGED nextId

UpdateUserInformations(c, p, informations) ==
    /\ Serve("update_user_informations", c, p, <<informations>>,
             update_user_informations(users, c, p, informations))
    /\ UNCHANGED nextId

CreateUser(c) ==
    /\ nextId \in UserIds
    /\ Serve("create_user", c, None, <<>>, create_user(users, c, nextId))
    /\ nextId' = IF last'.status = "OK" THEN nextId + 1 ELSE nextId

UpdateUserStatus(c, p, rawstatus) ==
    /\ Serve("update_user_status", c, p, <<rawstatus>>,
             update_user_status(users, c, p, rawstatus))
    /\ UNCHANGED nextId

AddUserToGroup(c, p, groupid) ==
    /\ Serve("add_user_to_group", c, p, <<groupid>>,
             add_user_to_group(users, c, p, groupid))
    /\ UNCHANGED nextId

UpdateUserIndex(c, p, typeid, value, extension) ==
    /\ Serve("update_user_index", c, p,
             [typeid |-> typeid, value |-> value, extension |-> extension],
             update_user_index(users, c, p, typeid, value, extension))
    /\ UNCHANGED nextId

DeleteUserIndex(c, p, typeid) ==
    /\ Serve("delete_user_index", c, p, [typeid |-> typeid],
             delete_user_index(users, c, p, typeid))
    /\ UNCHANGED nextId

DeleteUser(c, p) ==
    /\ Serve("delete_user", c, p, <<>>, delete_user(users, c, p))
    /\ UNCHANGED nextId

RemoveUserFromGroup(c, p, groupid) ==
    /\ Serve("remove_user_from_group", c, p, <<groupid>>,
             remove_user_from_group(users, c, p, groupid))
    /\ UNCHANGED nextId

UpdateUserAvatar(c, p, avatar, thumb_date, upload_date) ==
    /\ thumb_date <= upload_date
    /\ Serve("update_user_avatar", c, p, [avatar |-> avatar],
             update_user_avatar(users, c, p, avatar, thumb_date, upload_date))
    /\ UNCHANGED nextId

DeleteUserAvatar(c, p) ==
    /\ Serve("delete_user_avatar", c, p, <<>>, delete_user_avatar(users, c, p))
    /\ UNCHANGED nextId

GetUserAvatar(p, thumbnail, if_modified_since) ==
    /\ Serve("get_user_avatar", Anonymous, p,
             [thumbnail |-> thumbnail, if_modified_since |-> if_modified_since],
             get_user_avatar(users, p, thumbnail, if_modified_since))
    /\ UNCHANGED nextId

GetAllIndexs ==
    /\ Serve("get_all_indexs", Anonymous, None, <<>>,
             Resp("OK", get_all_indexs, users))
    /\ UNCHANGED nextId

\* the response leaves the server; the next request can be served
Reply ==
    /\ last # NoRequest
    /\ last' = NoRequest
    /\ UNCHANGED <<users, nextId, inflight>>

\* the status field of the form: absent, empty, or a text
StatusInputs == {None, "", "false", "true"}

GetCallers == [identity : UserIds, permissions : {{}, {P_get}}]

\* every view, with one value of each request field
Next ==
    \/ Reply
    \/ \E c \in GetCallers, p \in Paths : GetUserById(c, p)
    \/ \E c \in Callers, p \in Paths : UpdateUserInformations(c, p, "form_a")
    \/ \E c \in Callers : CreateUser(c)
    \/ \E c \in Callers, p \in Paths, s \in StatusInputs : UpdateUserStatus(c, p, s)
    \/ \E c \in Callers, p \in Paths, g \in GroupIds : AddUserToGroup(c, p, g)
    \/ \E c \in Callers, p \in Paths : UpdateUserIndex(c, p, "T_MAIL", 1, "{}")
    \/ \E c \in Callers, p \in Paths : DeleteUserIndex(c, p, "T_MAIL")
    \/ \E c \in Callers, p \in Paths : DeleteUser(c, p)
    \/ \E c \in Callers, p \in Paths, g \in GroupIds : RemoveUserFromGroup(c, p, g)
    \/ \E c \in Callers, p \in Paths, f \in {g \in Files : g.format = "JPEG"} :
           UpdateUserAvatar(c, p, f, MaxTime, MaxTime)
    \/ \E c \in Callers, p \in Paths : DeleteUserAvatar(c, p)
    \/ \E p \in Paths : GetUserAvatar(p, 0, PyNone)
    \/ GetAllIndexs

Spec == Init /\ [][Next]_vars

UpdateCallers == [identity : UserIds, permissions : {{}, {P_update}}]

\* the typeid field of the form: a registered typeid, an unregistered one,
\* the name of a registered type, or none
TypeIdInputs == {"T_MAIL", Unregistered, "Mail", None}

\* the index views, with every value of their request fields
NextIndex ==
    \/ Reply
    \/ \E c \in UpdateCallers, p \in Paths, t \in TypeIdInputs,
          v \in Values, e \in ExtensionInputs : UpdateUserIndex(c, p, t, v, e)
    \/ \E c \in UpdateCallers, p \in Paths, t \in {"T_MAIL", "T_ID", Unregistered} :
           DeleteUserIndex(c, p, t)
    \/ GetAllIndexs

SpecIndex == Init /\ [][NextIndex]_vars

\* the avatar views, with every value of their request fields
NextAvatar ==
    \/ Reply
    \/ \E c \in UpdateCallers, p \in Paths, f \in Files \cup {NoFile},
          td \in Times, d \in Times : UpdateUserAvatar(c, p, f, td, d)
    \/ \E c \in UpdateCallers, p \in Paths : DeleteUserAvatar(c, p)
    \/ \E p \in Paths, th \in {0, 1}, h \in HeaderInputs : GetUserAvatar(p, th, h)

SpecAvatar == Init /\ [][NextAvatar]_vars

-----------------------------------------------------------------------------
(* Concurrent requests: a worker loads the user, changes it in memory and    *)
(* saves it in a later step; other workers run in between.                   *)

\* the view ran up to its save: the changed user is in the worker's memory
\* loaded is the user as Retrieve.byid returned it, user the changed copy
Begin(w, op, c, path, args, r) ==
    /\ last = NoRequest
    /\ ~inflight[w].busy
    /\ c.identity < nextId
    /\ inflight' = [inflight EXCEPT ![w] =
          IF r.status = "OK"
          THEN [busy |-> TRUE, op |-> op, args |-> args,
                userid |-> Target(c, path),
                loaded |-> users[Target(c, path)],
                user |-> r.users[Target(c, path)]]
          ELSE Idle]
    /\ UNCHANGED <<users, nextId, last>>

BeginUpdateUserIndex(w, c, p, typeid, value, extension) ==
    Begin(w, "update_user_index", c, p, [typeid |-> typeid, value |-> value],
          update_user_index(users, c, p, typeid, value, extension))

BeginDeleteUserIndex(w, c, p, typeid) ==
    Begin(w, "delete_user_index", c, p, [typeid |-> typeid],
          delete_user_index(users, c, p, typeid))

\* the request of worker w answers: status and returned index list, with the
\* document loaded and the list that was stored just before the save
Answer(w, status, ret) ==
    [op |-> inflight[w].op, caller |-> Anonymous, path |-> OidText[inflight[w].userid],
     args |-> [request |-> inflight[w].args,
               loaded |-> inflight[w].loaded.indexs],
     status |-> status, ret |-> ret,
     pre |-> users[inflight[w].userid].indexs]

\* user.save() that refuses to write over a document changed since it was loaded
Finish_if_unchanged(w) ==
    /\ last = NoRequest
    /\ inflight[w].busy
    /\ IF users[inflight[w].userid] = inflight[w].loaded
       THEN /\ users' = save(users, inflight[w].userid, inflight[w].user)
            /\ last' = Answer(w, "OK", inflight[w].user.indexs)
       ELSE /\ users' = users
            /\ last' = Answer(w, "Conflict", None)
    /\ inflight' = [inflight EXCEPT ![w] = Idle]
    /\ UNCHANGED nextId

\* user.save(): the document in memory replaces the stored one, and the view
\* returns
Finish(w) ==
    /\ last = NoRequest
    /\ inflight[w].busy
    /\ users' = save(users, inflight[w].userid, inflight[w].user)
    /\ last' = Answer(w, "OK", inflight[w].user.indexs)
    /\ inflight' = [inflight EXCEPT ![w] = Idle]
    /\ UNCHANGED nextId

NextConc ==
    \/ \E w \in Workers, c \in UpdateCallers, p \in Paths,
          t \in {"T_MAIL", Unregistered}, v \in Values :
           BeginUpdateUserIndex(w, c, p, t, v, "{}")
    \/ \E w \in Workers, c \in UpdateCallers, p \in Paths, t \in {"T_MAIL", "T_ID"} :
           BeginDeleteUserIndex(w, c, p, t)
    \/ \E w \in Workers : Finish(w)
    \/ Reply

SpecConc == Init /\ [][NextConc]_vars

-----------------------------------------------------------------------------
(* The route table of the interface: permission and self-service override    *)
(* of each gated view                                                        *)

RouteTable ==
    [op \in {"get_user_byid", "update_user_informations", "create_user", "update_user_status",
             "add_user_to_group", "update_user_index", "delete_user_index",
             "delete_user", "remove_user_from_group", "update_user_avatar",
             "delete_user_avatar"} |->
        CASE op = "create_user" -> [permission |-> P_create, selfService |-> FALSE]
          [] op = "get_user_byid" -> [permission |-> P_get, selfService |-> FALSE]
          [] op = "update_user_status" -> [permission |-> P_update, selfService |-> FALSE]
          [] op = "delete_user" -> [permission |-> P_delete, selfService |-> TRUE]
          [] OTHER -> [permission |-> P_update, selfService |-> TRUE]]

Gated == last.op \in DOMAIN RouteTable
Denied == last.status = "PermissionDenied"
\* the user the last request is about, for its caller
LastTarget == Target(last.caller, last.path)
LastIsSelf == LastTarget = last.caller.identity

\* C1: a caller whose permissions lack the required one is denied on every
\* view without the self-service override, also when the target is the caller.
C1_NoOverrideDenies ==
    (/\ Gated
     /\ ~RouteTable[last.op].selfService
     /\ RouteTable[last.op].permission \notin last.caller.permissions)
    => Denied

C1_Witness ==
    /\ last.op = "update_user_status"
    /\ P_update \notin last.caller.permissions
    /\ LastIsSelf
    /\ users[last.caller.identity].exists
    /\ Denied

\* C2: on every view with the self-service override a caller acting on the
\* own identity is allowed, whatever the permissions are.
C2_SelfServiceAllows ==
    (/\ Gated
     /\ RouteTable[last.op].selfService
     /\ LastIsSelf)
    => ~Denied

C2_Witness ==
    /\ last.op = "delete_user"
    /\ last.caller.permissions = {}
    /\ LastIsSelf
    /\ last.status = "OK"
    /\ ~users[last.caller.identity].exists

\* C3: a request the gate denies changes no user.
C3_DeniedChangesNothing ==
    [][(last'.op \in DOMAIN RouteTable /\ last'.status = "PermissionDenied")
          => (users' = users /\ nextId' = nextId)]_vars

C3_Witness ==
    /\ last.op = "delete_user"
    /\ Denied
    /\ LastTarget # Invalid
    /\ users[LastTarget].exists
    /\ users[LastTarget].avatar.size # 0

-----------------------------------------------------------------------------
(* IndexRegistry *)

\* the typeids of the registry
RegisteredTypeIds == {settings_User_Indexs[n][1] : n \in DOMAIN settings_User_Indexs}

\* the entries of an index list of another typeid than t, in order
Others(indexs, t) == SelectSeq(indexs, LAMBDA i : i.typeid # t)
\* the entries of typeid t
Entries(indexs, t) == {k \in 1..Len(indexs) : indexs[k].typeid = t}

\* C4: createOrReplace with an unregistered typeid fails with
\* UndefinedIndexType, whatever the value and the extension, also when the user
\* does not exist, and changes no user.
C4_UnregisteredTypeidFails ==
    [][(last'.op = "update_user_index" /\ last'.args.typeid \notin RegisteredTypeIds)
          => /\ users' = users
             /\ last'.status \in {"PermissionDenied", "InvalidIdentifier",
                                  "UndefinedUserIndex"}
             /\ (/\ last'.status # "PermissionDenied"
                 /\ Target(last'.caller, last'.path) # Invalid)
                => last'.status = "UndefinedUserIndex"]_vars

C4_Witness ==
    /\ last.op = "update_user_index"
    /\ last.args.typeid = Unregistered
    /\ last.args.extension # "{}"
    /\ last.status = "UndefinedUserIndex"
    /\ users[LastTarget].exists

\* C5: after a createOrReplace of typeid t, a createOrReplace of t with value
\* v2 on the same user leaves exactly one entry of typeid t, of value v2, and
\* the entries of the other typeids as they were before the first one.
C5_CreateTwiceKeepsOne ==
    (last.op = "update_user_index" /\ last.status = "OK") =>
        LET u == LastTarget
            t == last.args.typeid
        IN /\ Cardinality(Entries(users[u].indexs, t)) = 1
           /\ \A k \in Entries(users[u].indexs, t) :
                  users[u].indexs[k].value = last.args.value
           /\ \A c2 \in UpdateCallers, p2 \in Paths, v2 \in Values,
                 e2 \in ExtensionInputs :
                  LET r2 == update_user_index(users, c2, p2, t, v2, e2)
                      l2 == r2.users[u].indexs
                  IN (Target(c2, p2) = u /\ r2.status = "OK") =>
                        /\ Cardinality(Entries(l2, t)) = 1
                        /\ \A k \in Entries(l2, t) : l2[k].value = v2
                        /\ Others(l2, t) = Others(last.pre, t)
                        /\ r2.ret = l2

C5_Witness ==
    /\ last.op = "update_user_index"
    /\ last.status = "OK"
    /\ Others(last.pre, last.args.typeid) # <<>>
    /\ \E k \in Entries(last.pre, last.args.typeid) :
           last.pre[k].value # last.args.value

\* C7: index delete raises no error when no entry of the typeid exists, and
\* a second delete of the same typeid leaves the index list and the returned
\* list as the first one left them.
C7_DeleteIdempotent ==
    /\ (/\ last.op = "delete_user_index"
        /\ ~Denied
        /\ LastTarget # Invalid
        /\ users[LastTarget].exists) => last.status = "OK"
    /\ (last.op = "delete_user_index" /\ last.status = "OK") =>
          LET u == LastTarget
              t == last.args.typeid
              r2 == delete_user_index(users, last.caller, last.path, t)
          IN /\ users[u].indexs = Others(last.pre, t)
             /\ last.ret = users[u].indexs
             /\ r2.status = "OK"
             /\ r2.users = users
             /\ r2.ret = last.ret

C7_Witness ==
    /\ last.op = "delete_user_index"
    /\ last.status = "OK"
    /\ Entries(last.pre, last.args.typeid) # {}
    /\ Len(users[LastTarget].indexs) < Len(last.pre)
    /\ users[LastTarget].indexs # <<>>

\* C6: every stored index list holds at most one entry per typeid, also when
\* index requests on the same user interleave.
C6_OneEntryPerTypeid ==
    \A u \in UserIds : \A j, k \in 1..Len(users[u].indexs) :
        users[u].indexs[j].typeid = users[u].indexs[k].typeid => j = k

\* two workers hold changed copies of the same user, one of them adding a
\* typeid the stored list already has
C6_Witness ==
    \E w1, w2 \in Workers :
        /\ w1 # w2
        /\ inflight[w1].busy /\ inflight[w2].busy
        /\ inflight[w1].userid = inflight[w2].userid
        /\ inflight[w1].user.indexs # inflight[w2].user.indexs
        /\ Entries(users[inflight[w1].userid].indexs, "T_MAIL") # {}
        /\ Entries(inflight[w1].user.indexs, "T_MAIL") # {}
        /\ inflight[w1].user.indexs # users[inflight[w1].userid].indexs

-----------------------------------------------------------------------------
(* AssetStore *)

FetchTarget == validator_objectid(last.path)

\* C8: fetch on a user without avatar answers 404, for the original and for
\* the thumbnail, whatever If-Modified-Since is.
C8_FetchAbsentIs404 ==
    (/\ last.op = "get_user_avatar"
     /\ FetchTarget # Invalid
     /\ users[FetchTarget].exists
     /\ users[FetchTarget].avatar.size = 0)
    => last.status = "404"

C8_Witness ==
    /\ last.op = "get_user_avatar"
    /\ last.status = "404"
    /\ last.args.thumbnail # 0
    /\ last.args.if_modified_since # PyNone

\* the upload date of the variant a fetch selects
SelectedDate(avatar, thumbnail) ==
    IF thumbnail # 0 THEN avatar.thumb_date ELSE avatar.upload_date

\* C9: fetch on a user with an avatar answers 304 exactly when
\* If-Modified-Since is present and is the upload date of the selected
\* variant, and otherwise 200 with that date and the image/<format> type.
C9_NotModifiedIffSameDate ==
    (/\ last.op = "get_user_avatar"
     /\ FetchTarget # Invalid
     /\ users[FetchTarget].exists
     /\ users[FetchTarget].avatar.size # 0)
    => LET avatar == users[FetchTarget].avatar
           date == SelectedDate(avatar, last.args.thumbnail)
           same == /\ last.args.if_modified_since # PyNone
                   /\ last.args.if_modified_since = HttpDate(date)
       IN IF same THEN last.status = "304"
          ELSE /\ last.status = "200"
               /\ last.ret.last_modified = PyDateTime(date)
               /\ last.ret.mimetype \in {"image/png", "image/jpeg"}
               /\ (last.ret.mimetype = "image/png") = (avatar.format = "PNG")

\* C10: store without a prior avatar or without a file returns 0 and changes
\* nothing; a store that changes anything had both, replaces the avatar of
\* its user by the file and returns the new length.
C10_StoreReplacesOnly ==
    [][(last'.op = "update_user_avatar" /\ last'.status = "OK") =>
          LET u == validator_objectid(last'.path)
              file == last'.args.avatar
              prior == users[u].avatar.size # 0
          IN /\ (~prior \/ file = NoFile) => (last'.ret = 0 /\ users' = users)
             /\ (last'.ret # 0 \/ users' # users) =>
                   /\ prior /\ file # NoFile
                   /\ last'.ret = file.length
                   /\ users'[u].avatar.length = file.length
                   /\ users'[u].avatar.format = file.format
                   /\ users'[u].avatar.size # 0
                   /\ users' = [users EXCEPT ![u].avatar = users'[u].avatar]]_vars

C10_Witness ==
    /\ last.op = "update_user_avatar"
    /\ last.status = "OK"
    /\ last.args.avatar # NoFile
    /\ users[validator_objectid(last.path)].avatar.size = 0
    /\ last.ret = 0


\* C11: avatar delete on a user with an avatar returns true and stores the
\* user without avatar, after which every fetch on that user, of either
\* variant and with any If-Modified-Since, answers 404; on a user without
\* avatar it returns false and changes nothing.
C11_DeleteRemovesAvatar ==
    [][(last'.op = "delete_user_avatar" /\ last'.status = "OK") =>
          LET u == validator_objectid(last'.path) IN
          IF users[u].avatar.size # 0
          THEN /\ last'.ret = TRUE
               /\ users' = [users EXCEPT ![u].avatar = NoAvatar]
               /\ \A th \in {0, 1}, h \in HeaderInputs :
                      get_user_avatar(users', OidText[u], th, h).status = "404"
          ELSE /\ last'.ret = FALSE
               /\ users' = users]_vars

\* a fetch answers 404 for the user that had an avatar at the start
C11_Witness ==
    /\ last.op = "get_user_avatar"
    /\ FetchTarget # Invalid
    /\ InitDoc(FetchTarget, FetchTarget = 1).avatar.size # 0
    /\ last.args.thumbnail # 0
    /\ last.status = "404"


\* the original file of an avatar is stored
HasOriginal(avatar) == avatar.upload_date # 0

\* the thumbnail of an avatar is stored
HasThumbnail(avatar) == avatar.thumb_date # 0

\* C17: for every stored user, size is 0 exactly when no avatar is present,
\* and the thumbnail exists exactly when the original exists.
C17_AvatarInvariant ==
    \A u \in UserIds :
        users[u].exists =>
            /\ (users[u].avatar.size = 0) <=> ~HasOriginal(users[u].avatar)
            /\ (users[u].avatar.size = 0) <=> (users[u].avatar = NoAvatar)
            /\ HasThumbnail(users[u].avatar) <=> HasOriginal(users[u].avatar)

\* a store has replaced the avatar of one user, the two variants carrying
\* different dates, while another user has no avatar
C17_Witness ==
    /\ last.op = "update_user_avatar"
    /\ last.status = "OK"
    /\ last.ret # 0
    /\ \E u, v \in UserIds :
          /\ users[u].exists /\ users[v].exists
          /\ users[u].avatar.size # 0
          /\ users[u].avatar.thumb_date # users[u].avatar.upload_date
          /\ users[u].avatar.format = last.args.avatar.format
          /\ users[v].avatar = NoAvatar

\* C19: no avatar request makes an absent avatar present: the avatar of a
\* user without one stays absent over every step, a store on such a user
\* returns 0 and a fetch on such a user answers 404.
C19_AbsenceAbsorbing ==
    [][/\ \A u \in UserIds :
              (users[u].exists /\ users[u].avatar.size = 0) =>
                  (users'[u].exists /\ users'[u].avatar.size = 0)
       /\ (/\ last'.op \in {"update_user_avatar", "get_user_avatar"}
           /\ validator_objectid(last'.path) # Invalid
           /\ last'.status \notin {"PermissionDenied", "InvalidIdentifier",
                                   "UserNotFound"}
           /\ users[validator_objectid(last'.path)].avatar.size = 0) =>
              IF last'.op = "update_user_avatar"
              THEN last'.status = "OK" /\ last'.ret = 0
              ELSE last'.status = "404"]_vars

\* a store with a file returns 0 for the user whose avatar was deleted
C19_Witness ==
    /\ last.op = "update_user_avatar"
    /\ last.status = "OK"
    /\ last.args.avatar # NoFile
    /\ validator_objectid(last.path) = 1
    /\ InitAvatar.size # 0
    /\ users[1].avatar = NoAvatar
    /\ last.ret = 0


\* C13: on every gated view the gate allows exactly when the required
\* permission is among the caller's or the view has the self-service override
\* and the resolved target is the caller; so a caller without the permission
\* addressing another identity is denied.
C13_AuthorizeIff ==
    Gated =>
        /\ ~Denied <=>
              \/ RouteTable[last.op].permission \in last.caller.permissions
              \/ RouteTable[last.op].selfService /\ LastIsSelf
        /\ (/\ RouteTable[last.op].selfService
            /\ RouteTable[last.op].permission \notin last.caller.permissions
            /\ ~LastIsSelf) => Denied

\* a caller without the update permission asks to change the index of
\* another, existing user and is denied
C13_Witness ==
    /\ last.op = "update_user_index"
    /\ P_update \notin last.caller.permissions
    /\ LastTarget # Invalid
    /\ LastTarget # last.caller.identity
    /\ users[LastTarget].exists
    /\ users[last.caller.identity].exists
    /\ Denied


\* C14: on every view with the self-service override a path value equal to
\* the self sentinel is resolved to the caller's identity: the request passes
\* the gate, does not fail with InvalidIdentifier and is applied to the
\* caller's own user.
C14_SelfSentinelResolved ==
    (/\ Gated
     /\ RouteTable[last.op].selfService
     /\ last.path = Self)
    => /\ LastTarget = last.caller.identity
       /\ ~Denied
       /\ last.status # "InvalidIdentifier"
       /\ users[last.caller.identity].exists => last.status = "OK"


\* the same user collection with the existence of user t the other way round
Flip(db, t) ==
    IF db[t].exists THEN delete(db, t) ELSE save(db, t, inituser(NewUser, t))

\* the response of the view of route op to a request, over the collection db
View(op, db, c, p, a) ==
    CASE op = "get_user_byid" -> get_user_byid(db, c, p)
      [] op = "update_user_informations" -> update_user_informations(db, c, p, a[1])
      [] op = "update_user_status" -> update_user_status(db, c, p, a[1])
      [] op = "add_user_to_group" -> add_user_to_group(db, c, p, a[1])
      [] op = "update_user_index" ->
            update_user_index(db, c, p, a.typeid, a.value, a.extension)
      [] op = "delete_user_index" -> delete_user_index(db, c, p, a.typeid)
      [] op = "delete_user" -> delete_user(db, c, p)
      [] op = "remove_user_from_group" -> remove_user_from_group(db, c, p, a[1])
      [] op = "update_user_avatar" ->
            update_user_avatar(db, c, p, a.avatar, MaxTime, MaxTime)
      [] op = "delete_user_avatar" -> delete_user_avatar(db, c, p)

\* the gated views that address a user by the path
Addressed == DOMAIN RouteTable \ {"create_user"}

\* C15: whether a request is denied does not depend on the existence of its
\* target: the same request by the same caller is answered PermissionDenied
\* over the stored users exactly when it is over the users with the target's
\* existence the other way round, so a denial is never UserNotFound instead.
C15_DenialHidesExistence ==
    [][(last'.op \in Addressed /\ Target(last'.caller, last'.path) # Invalid) =>
          LET t == Target(last'.caller, last'.path)
              other == View(last'.op, Flip(users, t), last'.caller,
                            last'.path, last'.args)
              here == View(last'.op, users, last'.caller, last'.path, last'.args)
          IN /\ here.status = last'.status
             /\ (last'.status = "PermissionDenied") <=>
                    (other.status = "PermissionDenied")
             /\ (other.status = "PermissionDenied") => (other.users = Flip(users, t))]_vars

\* a caller without the delete permission is denied the deletion of a user
\* that does not exist
C15_Witness ==
    /\ last.op = "delete_user"
    /\ Denied
    /\ LastTarget # Invalid
    /\ ~users[LastTarget].exists
    /\ \E u \in UserIds : users[u].exists /\ u = last.caller.identity


\* the user a served request is addressed to: the one the path denotes for
\* the caller, the new identity for a creation
AddressedUser(op, c, path, newid) ==
    IF op = "create_user" THEN newid ELSE Target(c, path)

\* C18: a request addressed to one user leaves every other user as stored:
\* over every step, a user whose stored document changes is the user the
\* request served in that step is addressed to.
C18_OtherUsersUnchanged ==
    [][\A b \in UserIds :
          users'[b] # users[b] =>
              /\ last'.op \in DOMAIN RouteTable
              /\ last'.status = "OK"
              /\ b = AddressedUser(last'.op, last'.caller, last'.path, nextId)]_vars

\* a caller holding the update permission has changed the informations of
\* another user; the caller's own user exists and still has none
C18_Witness ==
    /\ last.op = "update_user_informations"
    /\ last.status = "OK"
    /\ LastTarget # last.caller.identity
    /\ users[LastTarget].informations = "form_a"
    /\ users[last.caller.identity].exists
    /\ users[last.caller.identity].informations # "form_a"


\* the status a form text supplies; an absent field supplies the default
Denotes(rawstatus) ==
    CASE rawstatus = None -> TRUE
      [] rawstatus = "true" -> TRUE
      [] rawstatus = "false" -> FALSE
      [] rawstatus = "" -> FALSE

\* a step changes the disabled flag of a user stored before and after it
DisabledChanges(u) ==
    /\ users[u].exists /\ users'[u].exists
    /\ users'[u].disabled # users[u].disabled

\* the disabled flag changes only in a status update by a caller holding the
\* update permission
DisabledOnlyByStatus ==
    \A u \in UserIds :
        DisabledChanges(u) =>
            /\ last'.op = "update_user_status"
            /\ last'.status = "OK"
            /\ P_update \in last'.caller.permissions

\* C20: the disabled flag of an existing user changes only in a status update
\* by a caller holding the update permission, and a successful status update
\* sets disabled to the negation of the supplied status and leaves the
\* informations, the index list and the avatar as they were.
C20_StatusSetsDisabled ==
    [][/\ DisabledOnlyByStatus
       /\ (last'.op = "update_user_status" /\ last'.status = "OK") =>
              LET u == validator_objectid(last'.path) IN
              /\ users'[u].disabled = ~Denotes(last'.args[1])
              /\ users' = [users EXCEPT ![u].disabled = users'[u].disabled]]_vars


\* the typeids the discovery endpoint exposes in its answer
Exposed(answer) == {answer[n][1] : n \in DOMAIN answer}

\* the description the discovery endpoint reports for a typeid
Reported(answer, typeid) ==
    answer[CHOOSE n \in DOMAIN answer : answer[n][1] = typeid][2]

\* the typeids update_user_index does not reject as undefined, for a caller
\* holding the update permission and a well-formed identifier
Accepted ==
    {t \in TypeIdInputs \cup Exposed(get_all_indexs) \cup DOMAIN get_all_indexs :
        update_user_index(users, [identity |-> 1, permissions |-> {P_update}],
                          OidText[1], t, 1, "{}").status # "UndefinedUserIndex"}

\* C16: the typeids update_user_index accepts are the typeids get_all_indexs
\* exposes, and the description stored on a created index is the one
\* get_all_indexs reports for its typeid.
C16_RegistrySingleSource ==
    /\ (/\ last.op = "update_user_index"
        /\ last.status \notin {"PermissionDenied", "InvalidIdentifier"}) =>
           ((last.status # "UndefinedUserIndex") <=>
                (last.args.typeid \in Exposed(get_all_indexs)))
    /\ (last.op = "update_user_index" /\ last.status = "OK") =>
           /\ \E k \in 1..Len(users[LastTarget].indexs) :
                 /\ users[LastTarget].indexs[k].typeid = last.args.typeid
                 /\ users[LastTarget].indexs[k].value = last.args.value
           /\ \A k \in 1..Len(users[LastTarget].indexs) :
                 users[LastTarget].indexs[k].typeid = last.args.typeid =>
                     users[LastTarget].indexs[k].description =
                         Reported(get_all_indexs, last.args.typeid)
    /\ last.op = "get_all_indexs" =>
           /\ last.status = "OK"
           /\ Exposed(last.ret) = Accepted
           /\ Exposed(last.ret) = Exposed(get_all_indexs)

\* the discovery endpoint has answered while a user carries an index created
\* by update_user_index under a typeid of that answer
C16_Witness ==
    /\ last.op = "get_all_indexs"
    /\ "T_MAIL" \in Exposed(last.ret)
    /\ \E u \in UserIds :
          /\ users[u].exists
          /\ \E k \in 1..Len(users[u].indexs) :
                /\ users[u].indexs[k].typeid = "T_MAIL"
                /\ users[u].indexs[k].description = Reported(last.ret, "T_MAIL")


\* the document a worker's request makes of the document it loaded
Mutated(w) ==
    IF inflight[w].op = "update_user_index"
    THEN Create_index(inflight[w].loaded,
                      UserIndex(inflight[w].args.typeid, inflight[w].args.value,
                                indexs_dict[inflight[w].args.typeid],
                                JSONparser("{}")))
    ELSE Delete_index(inflight[w].loaded, inflight[w].args.typeid)

\* an index list holds the entry
Holds(indexs, entry) == \E k \in 1..Len(indexs) : indexs[k] = entry

\* C12: writers of the same user are not isolated: the save of a request
\* always succeeds and stores the change of the document the request loaded,
\* whatever has been stored since; so two interleaved index requests on one
\* user both succeed and the later save discards the change of the earlier.
C12_SaveOverwrites ==
    [][\A w \in Workers :
          (inflight[w].busy /\ ~inflight'[w].busy) =>
              /\ last'.status = "OK"
              /\ last'.ret = Mutated(w).indexs
              /\ users' = [users EXCEPT ![inflight[w].userid] = Mutated(w)]]_vars

\* a request has answered OK after its save discarded an entry that another
\* request stored, under another typeid, between its load and its save
C12_Witness ==
    /\ last.op \in {"update_user_index", "delete_user_index"}
    /\ last.status = "OK"
    /\ last.ret # last.args.loaded
    /\ users[validator_objectid(last.path)].indexs = last.ret
    /\ \E k \in 1..Len(last.pre) :
          /\ last.pre[k].typeid # last.args.request.typeid
          /\ ~Holds(last.args.loaded, last.pre[k])
          /\ ~Holds(last.ret, last.pre[k])

====
